---- MODULE Spec2Model ----
(***************************************************************************)
(* A model of src/src/App.js: the affix index, the pattern aggregation,    *)
(* the drill set and the learning session (find-words and repeat-after-me) *)
(* of the App component.  Strings are sequences of one-character strings,  *)
(* so that toLowerCase, trim, slice, endsWith and startsWith are computed. *)
(* null / undefined values are optional values: <<>> is null, <<v>> is v.  *)
(***************************************************************************)
EXTENDS Integers, Sequences, FiniteSets, TLC

VARIABLES
    \* loading (App.js 5-8, 37-66)
    loadPc, currentDictionary, prefixCounts, isLoading, error,
    \* the memoized values (useMemo, App.js 69, 102, 178), recomputed by the render
    \* that follows a change of one of their dependencies
    wordIndices, patternsData, rarePatterns,
    \* explore mode (App.js 9-12, 15): the filters, the open pattern, the page
    searchQuery, lengthFilter, rarityFilter, expandedPattern, currentPage,
    \* mode and selection (App.js 13-14, 19-21)
    mode, learnMode, selectedPatterns, customPatternInput, patternTypeFilter,
    \* session (App.js 22-34)
    isStudying, currentChallengeIndex, userAnswer, showAnswer,
    correctAnswers, totalAttempts, foundWords, attemptedWords,
    currentWordIndex, repeatCount, hideWord,
    \* a call of getRarityClass (App.js 135-141): its argument and what it returned
    classifiedCount, rarityClass,
    \* history variables: they record what happened and are never read by a handler
    lastOp,          \* the handler that ran last, and the branch of it that ran
    pageSetUnder,    \* the filters in force when currentPage was last reset
    baseCorrect,     \* correctAnswers when the current challenge began
    visibleCorrect,  \* correct submissions of the current word made while it was visible
    streak           \* ... the consecutive ones among them (a wrong submission ends the streak)

loadVars == <<loadPc, currentDictionary, prefixCounts, isLoading, error>>
selVars == <<selectedPatterns, customPatternInput, patternTypeFilter>>
sessionVars == <<isStudying, currentChallengeIndex, userAnswer, showAnswer,
                 correctAnswers, totalAttempts, foundWords, attemptedWords,
                 currentWordIndex, repeatCount, hideWord>>
histVars == <<baseCorrect, visibleCorrect, streak>>
memoVars == <<wordIndices, patternsData, rarePatterns>>
exploreVars == <<searchQuery, lengthFilter, rarityFilter, expandedPattern, currentPage,
                 pageSetUnder>>
classifyVars == <<classifiedCount, rarityClass>>
vars == <<loadVars, memoVars, exploreVars, mode, learnMode, selVars, sessionVars, lastOp,
          histVars, classifyVars>>

----------------------------------------------------------------------------
(* Bounds of the model *)

\* the longest word list and the longest vocabulary the served files hold
MaxWords == 3
MaxEntries == 2
\* the rows of a page whose header is clicked
MaxExpandRow == 2

MaxAttempts == 4
MaxChallengeIndex == 2

\* the counts classified are -MaxCount..MaxCount
MaxCount == 202

----------------------------------------------------------------------------
(* Strings *)

None == <<>>
Some(v) == <<v>>

Min(a, b) == IF a <= b THEN a ELSE b

ToLowerChar(c) ==
    CASE c = "A" -> "a"
      [] c = "B" -> "b"
      [] c = "C" -> "c"
      [] OTHER -> c

toLowerCase(s) == [i \in 1..Len(s) |-> ToLowerChar(s[i])]

IsSpace(c) == c = " "

RECURSIVE trimStart(_)
trimStart(s) ==
    IF s # <<>> /\ IsSpace(Head(s)) THEN trimStart(Tail(s)) ELSE s

RECURSIVE trimEnd(_)
trimEnd(s) ==
    IF s # <<>> /\ IsSpace(s[Len(s)]) THEN trimEnd(SubSeq(s, 1, Len(s) - 1)) ELSE s

trim(s) == trimEnd(trimStart(s))

\* s.slice(-n), for 0 < n <= s.length
sliceLast(s, n) == SubSeq(s, Len(s) - n + 1, Len(s))

\* s.slice(0, n)
sliceFirst(s, n) == SubSeq(s, 1, Min(n, Len(s)))

endsWith(s, q) == Len(q) <= Len(s) /\ SubSeq(s, Len(s) - Len(q) + 1, Len(s)) = q

startsWith(s, q) == Len(q) <= Len(s) /\ SubSeq(s, 1, Len(q)) = q

----------------------------------------------------------------------------
(* The data the loader delivers: dict_english.json and prefix_count.json *)

FixtureWords ==
    << <<"a","a","b","c">>, <<"B","a","b","c">>,
       <<"a","b","c","a">>, <<"a","b","c","B">> >>

\* Object.entries(prefixCounts): [pattern, data] in iteration order
FixturePrefixCounts ==
    << [pattern |-> <<"A","B","C">>, data |-> [length |-> 3]],
       [pattern |-> <<"a","b">>, data |-> [length |-> 2]] >>

----------------------------------------------------------------------------
(* wordIndices (App.js 69-99): endsMap and startsMap, each a Map from a     *)
(* key to the list of the words pushed under it, in push order.             *)

EmptyMap == [k \in {} |-> <<>>]

mapHas(m, k) == k \in DOMAIN m

\* map.get(k) || []
mapGetOrEmpty(m, k) == IF mapHas(m, k) THEN m[k] ELSE <<>>

\* if (!map.has(k)) map.set(k, []); map.get(k).push(word)
mapPush(m, k, word) ==
    [x \in (DOMAIN m) \cup {k} |-> IF x = k THEN Append(mapGetOrEmpty(m, k), word) ELSE m[x]]

MinAffixLen == 2
MaxAffixLen == 8

\* mutant: the lower-cased word is pushed
RECURSIVE indexEndings_PushesLower(_, _, _)
indexEndings_PushesLower(m, word, len) ==
    LET lowerWord == toLowerCase(word)
    IN IF len <= Min(MaxAffixLen, Len(lowerWord))
       THEN indexEndings_PushesLower(mapPush(m, sliceLast(lowerWord, len), lowerWord),
                                     word, len + 1)
       ELSE m

\* for (let len = 2; len <= Math.min(8, lowerWord.length); len++) endsMap ... push(word)
RECURSIVE indexEndings(_, _, _)
indexEndings(m, word, len) ==
    LET lowerWord == toLowerCase(word)
    IN IF len <= Min(MaxAffixLen, Len(lowerWord))
       THEN indexEndings(mapPush(m, sliceLast(lowerWord, len), word), word, len + 1)
       ELSE m

RECURSIVE indexStarts(_, _, _)
indexStarts(m, word, len) ==
    LET lowerWord == toLowerCase(word)
    IN IF len <= Min(MaxAffixLen, Len(lowerWord))
       THEN indexStarts(mapPush(m, sliceFirst(lowerWord, len), word), word, len + 1)
       ELSE m

\* currentDictionary.forEach(word => ...), from word i on
RECURSIVE buildEndsMap(_, _, _)
buildEndsMap(m, words, i) ==
    IF i > Len(words) THEN m
    ELSE buildEndsMap(indexEndings(m, words[i], MinAffixLen), words, i + 1)

RECURSIVE buildStartsMap(_, _, _)
buildStartsMap(m, words, i) ==
    IF i > Len(words) THEN m
    ELSE buildStartsMap(indexStarts(m, words[i], MinAffixLen), words, i + 1)

indexOf(dictionary) ==
    IF dictionary = None
    THEN [endsMap |-> EmptyMap, startsMap |-> EmptyMap]
    ELSE [endsMap |-> buildEndsMap(EmptyMap, dictionary[1], 1),
          startsMap |-> buildStartsMap(EmptyMap, dictionary[1], 1)]

----------------------------------------------------------------------------
(* patternsData (App.js 102-132) *)

\* mutant: the two counts are added before they are compared
keepPattern_BySum(wordsEndingWith, wordsStartingWith) ==
    Len(wordsEndingWith) + Len(wordsStartingWith) >= 2

\* if (wordsEndingWith.length >= 2 || wordsStartingWith.length >= 2)
keepPattern(wordsEndingWith, wordsStartingWith) ==
    Len(wordsEndingWith) >= 2 \/ Len(wordsStartingWith) >= 2

\* mutant: a present key is not looked for
groupsSet_AlwaysAppends(groups, rec) == Append(groups, rec)

\* patternGroups.set(key, value): a present key keeps its place, a new one goes last
RECURSIVE groupsSet(_, _)
groupsSet(groups, rec) ==
    IF groups = <<>> THEN <<rec>>
    ELSE IF Head(groups).pattern = rec.pattern THEN <<rec>> \o Tail(groups)
    ELSE <<Head(groups)>> \o groupsSet(Tail(groups), rec)

RECURSIVE groupPatterns(_, _, _, _)
groupPatterns(groups, entries, idx, i) ==
    IF i > Len(entries) THEN groups
    ELSE LET lowerPattern == toLowerCase(entries[i].pattern)
             wordsEndingWith == mapGetOrEmpty(idx.endsMap, lowerPattern)
             wordsStartingWith == mapGetOrEmpty(idx.startsMap, lowerPattern)
             rec == [pattern |-> lowerPattern,
                     length |-> entries[i].data.length,
                     endsWords |-> wordsEndingWith,
                     endsCount |-> Len(wordsEndingWith),
                     startsWords |-> wordsStartingWith,
                     startsCount |-> Len(wordsStartingWith),
                     totalCount |-> Len(wordsEndingWith) + Len(wordsStartingWith)]
         IN groupPatterns(IF keepPattern(wordsEndingWith, wordsStartingWith)
                          THEN groupsSet(groups, rec) ELSE groups,
                          entries, idx, i + 1)

\* mutant: the record goes before the records that compare equal to it
RECURSIVE insertByTotal_BeforeEquals(_, _)
insertByTotal_BeforeEquals(sorted, rec) ==
    IF sorted = <<>> THEN <<rec>>
    ELSE IF Head(sorted).totalCount - rec.totalCount >= 0 THEN <<rec>> \o sorted
    ELSE <<Head(sorted)>> \o insertByTotal_BeforeEquals(Tail(sorted), rec)

\* the place of rec in a list sorted by (a, b) => a.totalCount - b.totalCount,
\* after the records that compare equal to it (Array.prototype.sort is stable)
RECURSIVE insertByTotal(_, _)
insertByTotal(sorted, rec) ==
    IF sorted = <<>> THEN <<rec>>
    ELSE IF Head(sorted).totalCount - rec.totalCount > 0 THEN <<rec>> \o sorted
    ELSE <<Head(sorted)>> \o insertByTotal(Tail(sorted), rec)

RECURSIVE sortByTotal(_, _, _)
sortByTotal(sorted, recs, i) ==
    IF i > Len(recs) THEN sorted
    ELSE sortByTotal(insertByTotal(sorted, recs[i]), recs, i + 1)

aggregate(dictionary, counts, idx) ==
    IF dictionary = None \/ counts = None THEN <<>>
    ELSE sortByTotal(<<>>, groupPatterns(<<>>, counts[1], idx, 1), 1)

----------------------------------------------------------------------------
(* rarePatterns (App.js 178-228) *)

MinDrillCount == 2
MaxDrillCount == 15
MinDrillLength == 3

Ends == <<"e","n","d","s">>
Starts == <<"s","t","a","r","t","s">>
All == <<"a","l","l">>

\* mutant: < for <= at the upper bound
drillable_BelowMax(count, length) ==
    count >= MinDrillCount /\ count < MaxDrillCount /\ length >= MinDrillLength

\* if (p.endsCount >= 2 && p.endsCount <= 15 && p.length >= 3)
drillable(count, length) ==
    count >= MinDrillCount /\ count <= MaxDrillCount /\ length >= MinDrillLength

RECURSIVE splitPatterns(_, _)
splitPatterns(data, i) ==
    IF i > Len(data) THEN <<>>
    ELSE LET p == data[i]
             endsEntry == IF drillable(p.endsCount, p.length)
                          THEN << [pattern |-> p.pattern, type |-> Ends, length |-> p.length,
                                   words |-> p.endsWords, count |-> p.endsCount] >>
                          ELSE <<>>
             startsEntry == IF drillable(p.startsCount, p.length)
                            THEN << [pattern |-> p.pattern, type |-> Starts, length |-> p.length,
                                     words |-> p.startsWords, count |-> p.startsCount] >>
                            ELSE <<>>
         IN endsEntry \o startsEntry \o splitPatterns(data, i + 1)

\* patterns.filter(p => p.type === patternTypeFilter)
filterByType(patterns, typeFilter) ==
    IF typeFilter # All
    THEN SelectSeq(patterns, LAMBDA p : p.type = typeFilter)
    ELSE patterns

\* mutant: either side of the pattern may match, whatever the side of the entry
matchesCustomInput_EitherSide(p, query) ==
    endsWith(p.pattern, query) \/ startsWith(p.pattern, query)

\* p.type === 'ends' ? p.pattern.endsWith(query) : p.type === 'starts' ? ... : false
matchesCustomInput(p, query) ==
    IF p.type = Ends THEN endsWith(p.pattern, query)
    ELSE IF p.type = Starts THEN startsWith(p.pattern, query)
    ELSE FALSE

\* if (customPatternInput.trim()) patterns.filter(...)
filterByCustomInput(patterns, input) ==
    IF trim(input) # <<>>
    THEN LET query == trim(toLowerCase(input))
         IN SelectSeq(patterns, LAMBDA p : matchesCustomInput(p, query))
    ELSE patterns

drillSet(data, typeFilter, input) ==
    filterByCustomInput(filterByType(splitPatterns(data, 1), typeFilter), input)

\* `${p.pattern}_${p.type}`
patternKeyOf(p) == p.pattern \o <<"_">> \o p.type

\* array.find(pred): the first element that satisfies pred, or undefined
RECURSIVE findByKey(_, _)
findByKey(patterns, patternKey) ==
    IF patterns = <<>> THEN None
    ELSE IF patternKeyOf(Head(patterns)) = patternKey THEN Some(Head(patterns))
    ELSE findByKey(Tail(patterns), patternKey)

\* currentChallenge (App.js 231-235)
currentChallenge ==
    IF ~isStudying \/ Len(selectedPatterns) = 0 THEN None
    ELSE findByKey(rarePatterns,
                   selectedPatterns[(currentChallengeIndex % Len(selectedPatterns)) + 1])

----------------------------------------------------------------------------
(* Initial state: the useState initial values (App.js 5-34) *)

NoError == "null"
Explore == "explore"
Learn == "learn"
Find == "find"
Repeat == "repeat"

Init ==
    /\ loadPc = "mounted"
    /\ currentDictionary = None
    /\ prefixCounts = None
    /\ isLoading = FALSE
    /\ error = NoError
    /\ wordIndices = indexOf(None)
    /\ patternsData = <<>>
    /\ rarePatterns = <<>>
    /\ searchQuery = <<>>
    /\ lengthFilter = "all"
    /\ rarityFilter = "all"
    /\ expandedPattern = None
    /\ currentPage = 1
    /\ pageSetUnder = <<searchQuery, lengthFilter, rarityFilter>>
    /\ mode = Explore
    /\ learnMode = Find
    /\ selectedPatterns = <<>>
    /\ customPatternInput = <<>>
    /\ patternTypeFilter = All
    /\ isStudying = FALSE
    /\ currentChallengeIndex = 0
    /\ userAnswer = <<>>
    /\ showAnswer = FALSE
    /\ correctAnswers = 0
    /\ totalAttempts = 0
    /\ foundWords = {}
    /\ attemptedWords = {}
    /\ currentWordIndex = 0
    /\ repeatCount = 0
    /\ hideWord = FALSE
    /\ classifiedCount = 0
    /\ rarityClass = None
    /\ lastOp = [op |-> "none", branch |-> "done"]
    /\ baseCorrect = 0
    /\ visibleCorrect = 0
    /\ streak = 0

----------------------------------------------------------------------------
(* loadData (App.js 37-66): the mount effect and its two fetches *)

uiVars == <<exploreVars, mode, learnMode, selVars, sessionVars, histVars, classifyVars>>

\* the history of the step: the handler that ran and the branch of it that ran
ran(op, branch) == lastOp' = [op |-> op, branch |-> branch]

\* the render after a state change: each useMemo whose dependencies changed is
\* recomputed, the others keep their value (App.js 99, 132, 228)
renderMemos ==
    /\ wordIndices' = IF currentDictionary' = currentDictionary
                      THEN wordIndices
                      ELSE indexOf(currentDictionary')
    /\ patternsData' = IF <<currentDictionary', prefixCounts', wordIndices'>>
                             = <<currentDictionary, prefixCounts, wordIndices>>
                       THEN patternsData
                       ELSE aggregate(currentDictionary', prefixCounts', wordIndices')
    /\ rarePatterns' = IF <<patternsData', patternTypeFilter', customPatternInput'>>
                             = <<patternsData, patternTypeFilter, customPatternInput>>
                       THEN rarePatterns
                       ELSE drillSet(patternsData', patternTypeFilter', customPatternInput')

loadDataStart ==
    /\ loadPc = "mounted"
    /\ isLoading' = TRUE
    /\ error' = NoError
    /\ loadPc' = "fetchDict"
    /\ ran("loadData", "done")
    /\ UNCHANGED <<currentDictionary, prefixCounts, uiVars>>
    /\ renderMemos

\* const words = await dictResponse.json(); setCurrentDictionary(words)
dictionaryFetched(words) ==
    /\ loadPc = "fetchDict"
    /\ currentDictionary' = Some(words)
    /\ loadPc' = "fetchPrefix"
    /\ ran("loadData", "done")
    /\ UNCHANGED <<prefixCounts, isLoading, error, uiVars>>
    /\ renderMemos

dictionaryLoaded == dictionaryFetched(FixtureWords)

dictionaryFailed ==
    /\ loadPc = "fetchDict"
    /\ error' = "Error loading data: Failed to load dictionary"
    /\ isLoading' = FALSE
    /\ loadPc' = "done"
    /\ ran("loadData", "done")
    /\ UNCHANGED <<currentDictionary, prefixCounts, uiVars>>
    /\ renderMemos

\* const prefixes = await prefixResponse.json(); setPrefixCounts(prefixes)
prefixCountsFetched(prefixes) ==
    /\ loadPc = "fetchPrefix"
    /\ prefixCounts' = Some(prefixes)
    /\ isLoading' = FALSE
    /\ loadPc' = "done"
    /\ ran("loadData", "done")
    /\ UNCHANGED <<currentDictionary, error, uiVars>>
    /\ renderMemos

prefixCountsLoaded == prefixCountsFetched(FixturePrefixCounts)

prefixCountsFailed ==
    /\ loadPc = "fetchPrefix"
    /\ error' = "Error loading data: Failed to load prefix counts"
    /\ isLoading' = FALSE
    /\ loadPc' = "done"
    /\ ran("loadData", "done")
    /\ UNCHANGED <<currentDictionary, prefixCounts, uiVars>>
    /\ renderMemos

----------------------------------------------------------------------------
(* Selection handlers (App.js 247-258) and the setters the render calls *)

setMode(m) ==
    /\ mode' = m
    /\ ran("setMode", "done")
    /\ UNCHANGED <<classifyVars, loadVars, exploreVars, memoVars, learnMode, selVars, sessionVars, histVars>>

setLearnMode(m) ==
    /\ learnMode' = m
    /\ ran("setLearnMode", "done")
    /\ UNCHANGED <<classifyVars, loadVars, exploreVars, memoVars, mode, selVars, sessionVars, histVars>>

setPatternTypeFilter(f) ==
    /\ patternTypeFilter' = f
    /\ ran("setPatternTypeFilter", "done")
    /\ UNCHANGED <<classifyVars, loadVars, exploreVars, mode, learnMode, selectedPatterns, customPatternInput,
                   sessionVars, histVars>>
    /\ renderMemos

setCustomPatternInput(value) ==
    /\ customPatternInput' = value
    /\ ran("setCustomPatternInput", "done")
    /\ UNCHANGED <<classifyVars, loadVars, exploreVars, mode, learnMode, selectedPatterns, patternTypeFilter,
                   sessionVars, histVars>>
    /\ renderMemos

setUserAnswer(value) ==
    /\ userAnswer' = value
    /\ ran("setUserAnswer", "done")
    /\ UNCHANGED <<classifyVars, loadVars, exploreVars, memoVars, mode, learnMode, selVars, isStudying, currentChallengeIndex,
                   showAnswer, correctAnswers, totalAttempts, foundWords, attemptedWords,
                   currentWordIndex, repeatCount, hideWord, histVars>>

includes(seq, x) == \E i \in 1..Len(seq) : seq[i] = x

\* mutant: the key is appended without looking for it
toggled_AlwaysAppends(prev, patternKey) == Append(prev, patternKey)

\* prev.includes(k) ? prev.filter(p => p !== k) : [...prev, k]
toggled(prev, patternKey) ==
    IF includes(prev, patternKey)
    THEN SelectSeq(prev, LAMBDA p : p # patternKey)
    ELSE Append(prev, patternKey)

togglePatternSelection(patternKey) ==
    /\ selectedPatterns' = toggled(selectedPatterns, patternKey)
    /\ ran("togglePatternSelection", "done")
    /\ UNCHANGED <<classifyVars, loadVars, exploreVars, memoVars, mode, learnMode, customPatternInput, patternTypeFilter,
                   sessionVars, histVars>>

allRareKeys == [i \in 1..Len(rarePatterns) |-> patternKeyOf(rarePatterns[i])]

selectAllRare ==
    /\ selectedPatterns' = allRareKeys
    /\ ran("selectAllRare", "done")
    /\ UNCHANGED <<classifyVars, loadVars, exploreVars, memoVars, mode, learnMode, customPatternInput, patternTypeFilter,
                   sessionVars, histVars>>

----------------------------------------------------------------------------
(* startStudy (App.js 260-277) *)

\* mutant: the guard is missing
noPatternsSelected_Never == FALSE

\* if (selectedPatterns.length === 0) { alert(...); return; }
noPatternsSelected == Len(selectedPatterns) = 0

startStudy(m) ==
    /\ IF noPatternsSelected
       THEN /\ ran("startStudy", "empty")
            /\ UNCHANGED <<learnMode, sessionVars, histVars>>
       ELSE /\ ran("startStudy", "started")
            /\ learnMode' = m
            /\ isStudying' = TRUE
            /\ currentChallengeIndex' = 0
            /\ correctAnswers' = 0
            /\ totalAttempts' = 0
            /\ showAnswer' = FALSE
            /\ userAnswer' = <<>>
            /\ foundWords' = {}
            /\ attemptedWords' = {}
            /\ currentWordIndex' = 0
            /\ repeatCount' = 0
            /\ hideWord' = FALSE
            /\ baseCorrect' = 0
            /\ visibleCorrect' = 0
            /\ streak' = 0
    /\ UNCHANGED <<classifyVars, loadVars, exploreVars, memoVars, mode, selVars>>

----------------------------------------------------------------------------
(* checkAnswer (App.js 279-315) *)

\* if (!currentChallenge || !userAnswer.trim()) return;
submissionIgnored == currentChallenge = None \/ trim(userAnswer) = <<>>

\* fullWord = userInput + pattern (ends) or pattern + userInput (starts)
constructFullWord(type, userInput, pattern) ==
    IF type = Ends THEN userInput \o pattern ELSE pattern \o userInput

\* mutant: attemptedWords is not consulted
alreadyAttempted_Never(fullWord) == FALSE

\* attemptedWords.has(fullWord)
alreadyAttempted(fullWord) == fullWord \in attemptedWords

\* mutant: the dictionary word is compared without toLowerCase()
RECURSIVE findMatchedWord_CaseSensitive(_, _)
findMatchedWord_CaseSensitive(words, fullWord) ==
    IF words = <<>> THEN None
    ELSE IF Head(words) = fullWord THEN Some(Head(words))
    ELSE findMatchedWord_CaseSensitive(Tail(words), fullWord)

\* currentChallenge.words.find(dictWord => dictWord.toLowerCase() === fullWord)
RECURSIVE findMatchedWord(_, _)
findMatchedWord(words, fullWord) ==
    IF words = <<>> THEN None
    ELSE IF toLowerCase(Head(words)) = fullWord THEN Some(Head(words))
    ELSE findMatchedWord(Tail(words), fullWord)

\* if (matchedWord && !foundWords.has(fullWord))
countsAsFound(matchedWord, fullWord) ==
    matchedWord # None /\ matchedWord # Some(<<>>) /\ fullWord \notin foundWords

\* App.js 296-299
absorbGuess ==
    /\ ran("checkAnswer", "absorbed")
    /\ userAnswer' = <<>>
    /\ UNCHANGED <<attemptedWords, foundWords, correctAnswers, totalAttempts>>

\* mutant: a found word is not counted as an attempt
recordGuess_FoundIsNoAttempt(fullWord, matchedWord) ==
    /\ attemptedWords' = attemptedWords \cup {fullWord}
    /\ IF countsAsFound(matchedWord, fullWord)
       THEN /\ ran("checkAnswer", "found")
            /\ foundWords' = foundWords \cup {fullWord}
            /\ correctAnswers' = correctAnswers + 1
            /\ totalAttempts' = totalAttempts
       ELSE /\ ran("checkAnswer", "missed")
            /\ totalAttempts' = totalAttempts + 1
            /\ UNCHANGED <<foundWords, correctAnswers>>
    /\ userAnswer' = <<>>

\* App.js 301-314
recordGuess(fullWord, matchedWord) ==
    /\ attemptedWords' = attemptedWords \cup {fullWord}
    /\ IF countsAsFound(matchedWord, fullWord)
       THEN /\ ran("checkAnswer", "found")
            /\ foundWords' = foundWords \cup {fullWord}
            /\ correctAnswers' = correctAnswers + 1
       ELSE /\ ran("checkAnswer", "missed")
            /\ UNCHANGED <<foundWords, correctAnswers>>
    /\ totalAttempts' = totalAttempts + 1
    /\ userAnswer' = <<>>

checkAnswer ==
    /\ IF submissionIgnored
       THEN /\ ran("checkAnswer", "ignored")
            /\ UNCHANGED <<sessionVars, histVars>>
       ELSE LET challenge == currentChallenge[1]
                userInput == trim(toLowerCase(userAnswer))
                pattern == toLowerCase(challenge.pattern)
                fullWord == constructFullWord(challenge.type, userInput, pattern)
                matchedWord == findMatchedWord(challenge.words, fullWord)
            IN /\ IF alreadyAttempted(fullWord)
                  THEN absorbGuess
                  ELSE recordGuess(fullWord, matchedWord)
               /\ UNCHANGED <<isStudying, currentChallengeIndex, showAnswer,
                              currentWordIndex, repeatCount, hideWord, histVars>>
    /\ UNCHANGED <<classifyVars, loadVars, exploreVars, memoVars, mode, learnMode, selVars>>

----------------------------------------------------------------------------
(* showAllWords (App.js 317-322) *)

\* mutant: the test of foundWords.size is inverted
givingUpPenalty_Inverted == IF Cardinality(foundWords) = 0 THEN 0 ELSE 1

\* if (foundWords.size === 0) setTotalAttempts(prev => prev + 1)
givingUpPenalty == IF Cardinality(foundWords) = 0 THEN 1 ELSE 0

showAllWords ==
    /\ ran("showAllWords", IF givingUpPenalty = 0 THEN "free" ELSE "penalized")
    /\ showAnswer' = TRUE
    /\ totalAttempts' = totalAttempts + givingUpPenalty
    /\ UNCHANGED <<isStudying, currentChallengeIndex, userAnswer, correctAnswers,
                   foundWords, attemptedWords, currentWordIndex, repeatCount, hideWord,
                   histVars>>
    /\ UNCHANGED <<classifyVars, loadVars, exploreVars, memoVars, mode, learnMode, selVars>>

----------------------------------------------------------------------------
(* checkRepeatWord (App.js 325-354) *)

RepeatsToHide == 3

\* userAnswer.trim().toLowerCase() === currentWord.toLowerCase()
typedWordMatches(typed, currentWord) ==
    toLowerCase(trim(typed)) = toLowerCase(currentWord)

\* mutant: > for >=
repeatedEnough_OffByOne(newRepeatCount) == newRepeatCount > RepeatsToHide

\* mutant: the word is never hidden, so the count is never reset
repeatedEnough_Never(newRepeatCount) == newRepeatCount < 0

\* if (newRepeatCount >= 3)
repeatedEnough(newRepeatCount) == newRepeatCount >= RepeatsToHide

\* mutant: the recalled word is not scored
recallWord_NoScore ==
    /\ ran("checkRepeatWord", "recalled")
    /\ currentWordIndex' = currentWordIndex + 1
    /\ repeatCount' = 0
    /\ hideWord' = FALSE
    /\ correctAnswers' = correctAnswers
    /\ visibleCorrect' = 0
    /\ streak' = 0

\* App.js 333-338: typed correctly while hidden
recallWord ==
    /\ ran("checkRepeatWord", "recalled")
    /\ currentWordIndex' = currentWordIndex + 1
    /\ repeatCount' = 0
    /\ hideWord' = FALSE
    /\ correctAnswers' = correctAnswers + 1
    /\ visibleCorrect' = 0
    /\ streak' = 0

\* App.js 339-349: typed correctly while visible
repeatWord ==
    LET newRepeatCount == repeatCount + 1
    IN /\ IF repeatedEnough(newRepeatCount)
          THEN /\ ran("checkRepeatWord", "hidden")
               /\ hideWord' = TRUE
               /\ repeatCount' = 0
          ELSE /\ ran("checkRepeatWord", "repeated")
               /\ hideWord' = hideWord
               /\ repeatCount' = newRepeatCount
       /\ visibleCorrect' = visibleCorrect + 1
       /\ streak' = streak + 1
       /\ UNCHANGED <<currentWordIndex, correctAnswers>>

\* mutant: a wrong submission restarts the repetitions
mistypeWord_ResetsCount ==
    /\ ran("checkRepeatWord", "wrong")
    /\ streak' = IF hideWord THEN streak ELSE 0
    /\ repeatCount' = 0
    /\ UNCHANGED <<currentWordIndex, hideWord, correctAnswers, visibleCorrect>>

\* userWord !== correctWord: no branch of App.js 332-350 runs
mistypeWord ==
    /\ ran("checkRepeatWord", "wrong")
    /\ streak' = IF hideWord THEN streak ELSE 0
    /\ UNCHANGED <<currentWordIndex, repeatCount, hideWord, correctAnswers, visibleCorrect>>

checkRepeatWord ==
    /\ IF submissionIgnored
       THEN /\ ran("checkRepeatWord", "ignored")
            /\ UNCHANGED <<sessionVars, histVars>>
       ELSE IF currentWordIndex >= Len(currentChallenge[1].words)
       \* currentWord is undefined: currentWord.toLowerCase() throws before any setter runs
       THEN /\ ran("checkRepeatWord", "threw")
            /\ UNCHANGED <<sessionVars, histVars>>
       ELSE LET currentWord == currentChallenge[1].words[currentWordIndex + 1]
            IN /\ IF typedWordMatches(userAnswer, currentWord)
                  THEN IF hideWord THEN recallWord ELSE repeatWord
                  ELSE mistypeWord
               /\ totalAttempts' = totalAttempts + 1
               /\ userAnswer' = <<>>
               /\ UNCHANGED <<isStudying, currentChallengeIndex, showAnswer, foundWords,
                              attemptedWords, baseCorrect>>
    /\ UNCHANGED <<classifyVars, loadVars, exploreVars, memoVars, mode, learnMode, selVars>>

----------------------------------------------------------------------------
(* skipRepeatWord, nextChallenge, resetStudy (App.js 356-388) *)

\* mutant: a skip counts as an attempt
skipRepeatWord_CountsAttempt ==
    /\ ran("skipRepeatWord", "done")
    /\ currentWordIndex' = currentWordIndex + 1
    /\ repeatCount' = 0
    /\ hideWord' = FALSE
    /\ userAnswer' = <<>>
    /\ visibleCorrect' = 0
    /\ streak' = 0
    /\ totalAttempts' = totalAttempts + 1
    /\ UNCHANGED <<isStudying, currentChallengeIndex, showAnswer, correctAnswers,
                   foundWords, attemptedWords, baseCorrect>>
    /\ UNCHANGED <<classifyVars, loadVars, exploreVars, memoVars, mode, learnMode, selVars>>

skipRepeatWord ==
    /\ ran("skipRepeatWord", "done")
    /\ currentWordIndex' = currentWordIndex + 1
    /\ repeatCount' = 0
    /\ hideWord' = FALSE
    /\ userAnswer' = <<>>
    /\ visibleCorrect' = 0
    /\ streak' = 0
    /\ UNCHANGED <<isStudying, currentChallengeIndex, showAnswer, correctAnswers,
                   totalAttempts, foundWords, attemptedWords, baseCorrect>>
    /\ UNCHANGED <<classifyVars, loadVars, exploreVars, memoVars, mode, learnMode, selVars>>

\* mutant: the score is reset with the challenge
nextChallenge_ResetsScore ==
    /\ ran("nextChallenge", "done")
    /\ currentChallengeIndex' = currentChallengeIndex + 1
    /\ userAnswer' = <<>>
    /\ showAnswer' = FALSE
    /\ foundWords' = {}
    /\ attemptedWords' = {}
    /\ currentWordIndex' = 0
    /\ repeatCount' = 0
    /\ hideWord' = FALSE
    /\ correctAnswers' = 0
    /\ totalAttempts' = 0
    /\ baseCorrect' = 0
    /\ visibleCorrect' = 0
    /\ streak' = 0
    /\ UNCHANGED isStudying
    /\ UNCHANGED <<classifyVars, loadVars, exploreVars, memoVars, mode, learnMode, selVars>>

nextChallenge ==
    /\ ran("nextChallenge", "done")
    /\ currentChallengeIndex' = currentChallengeIndex + 1
    /\ userAnswer' = <<>>
    /\ showAnswer' = FALSE
    /\ foundWords' = {}
    /\ attemptedWords' = {}
    /\ currentWordIndex' = 0
    /\ repeatCount' = 0
    /\ hideWord' = FALSE
    /\ baseCorrect' = correctAnswers
    /\ visibleCorrect' = 0
    /\ streak' = 0
    /\ UNCHANGED <<isStudying, correctAnswers, totalAttempts>>
    /\ UNCHANGED <<classifyVars, loadVars, exploreVars, memoVars, mode, learnMode, selVars>>

\* mutant: the selection survives the reset
resetStudy_KeepsSelection ==
    /\ ran("resetStudy", "done")
    /\ isStudying' = FALSE
    /\ currentChallengeIndex' = 0
    /\ correctAnswers' = 0
    /\ totalAttempts' = 0
    /\ showAnswer' = FALSE
    /\ userAnswer' = <<>>
    /\ foundWords' = {}
    /\ attemptedWords' = {}
    /\ currentWordIndex' = 0
    /\ repeatCount' = 0
    /\ hideWord' = FALSE
    /\ learnMode' = Find
    /\ baseCorrect' = 0
    /\ visibleCorrect' = 0
    /\ streak' = 0
    /\ UNCHANGED <<classifyVars, loadVars, exploreVars, memoVars, mode, selVars>>

resetStudy ==
    /\ ran("resetStudy", "done")
    /\ isStudying' = FALSE
    /\ selectedPatterns' = <<>>
    /\ currentChallengeIndex' = 0
    /\ correctAnswers' = 0
    /\ totalAttempts' = 0
    /\ showAnswer' = FALSE
    /\ userAnswer' = <<>>
    /\ foundWords' = {}
    /\ attemptedWords' = {}
    /\ currentWordIndex' = 0
    /\ repeatCount' = 0
    /\ hideWord' = FALSE
    /\ learnMode' = Find
    /\ baseCorrect' = 0
    /\ visibleCorrect' = 0
    /\ streak' = 0
    /\ UNCHANGED <<classifyVars, loadVars, exploreVars, memoVars, mode, customPatternInput, patternTypeFilter>>

----------------------------------------------------------------------------
(* What the render shows (App.js 395-413, 436, 553-555, 677-679, 746): an   *)
(* event reaches a handler only through an element that is rendered.        *)

appRendered == loadPc # "mounted" /\ ~isLoading /\ error = NoError

selectionRendered == appRendered /\ mode = Learn /\ ~isStudying

challengeRendered == appRendered /\ mode = Learn /\ isStudying

\* currentChallenge?.words.length || 0
challengeWordCount == IF currentChallenge = None THEN 0 ELSE Len(currentChallenge[1].words)

\* mutant: <= for <
repeatSectionRendered_Inclusive ==
    challengeRendered /\ learnMode = Repeat /\ currentWordIndex <= challengeWordCount

repeatSectionRendered ==
    challengeRendered /\ learnMode = Repeat /\ currentWordIndex < challengeWordCount

completionRendered ==
    challengeRendered /\ learnMode = Repeat /\ ~(currentWordIndex < challengeWordCount)

\* mutant: the answer section is rendered in both protocols
answerSectionRendered_AnyMode == challengeRendered /\ ~showAnswer

answerSectionRendered == challengeRendered /\ learnMode # Repeat /\ ~showAnswer

revealRendered == challengeRendered /\ learnMode # Repeat /\ showAnswer

----------------------------------------------------------------------------
(* The values typed and chosen *)

FindInputs ==
    { <<"a">>, <<" ","A">>, <<"b">>, <<"c">>, <<" ">> }

RepeatInputs ==
    { <<" ","A","A","B","C">>, <<"b","a","b","c">>, <<"a","b","c","a">>,
      <<"a","b","c","b">>, <<" ">> }

QueryInputs == { <<>>, <<" ","C">> }

\* the counters the model stops at
withinAttempts == totalAttempts < MaxAttempts
withinChallenges == currentChallengeIndex < MaxChallengeIndex

----------------------------------------------------------------------------
(* The events of the rendered application *)

ClickMode == \E m \in {Explore, Learn} : appRendered /\ setMode(m)

ClickPatternType ==
    \E f \in {Ends, Starts, All} : selectionRendered /\ setPatternTypeFilter(f)

ClickGameMode == \E m \in {Find, Repeat} : selectionRendered /\ setLearnMode(m)

TypeCustomPattern ==
    \E value \in QueryInputs : selectionRendered /\ setCustomPatternInput(value)

ClickPatternCheckbox ==
    \E i \in 1..Len(rarePatterns) :
        selectionRendered /\ togglePatternSelection(patternKeyOf(rarePatterns[i]))

ClickSelectAll == selectionRendered /\ selectAllRare

\* The Start button is disabled while nothing is selected (App.js 653); a click
\* delivered all the same reaches the guard of startStudy, which is what runs here.
ClickStart == selectionRendered /\ startStudy(learnMode)

TypeAnswer ==
    \/ \E value \in FindInputs : answerSectionRendered /\ setUserAnswer(value)
    \/ \E value \in RepeatInputs : repeatSectionRendered /\ setUserAnswer(value)

SubmitWord == answerSectionRendered /\ withinAttempts /\ checkAnswer

ClickShowWords == answerSectionRendered /\ withinAttempts /\ showAllWords

SubmitRepeat == repeatSectionRendered /\ withinAttempts /\ checkRepeatWord

ClickSkipWord == repeatSectionRendered /\ skipRepeatWord

ClickNext == (completionRendered \/ revealRendered) /\ withinChallenges /\ nextChallenge

ClickEndPractice == challengeRendered /\ resetStudy

Load ==
    \/ loadDataStart
    \/ dictionaryLoaded
    \/ dictionaryFailed
    \/ prefixCountsLoaded
    \/ prefixCountsFailed

Next ==
    \/ Load
    \/ ClickMode
    \/ ClickPatternType
    \/ ClickGameMode
    \/ TypeCustomPattern
    \/ ClickPatternCheckbox
    \/ ClickSelectAll
    \/ ClickStart
    \/ TypeAnswer
    \/ SubmitWord
    \/ ClickShowWords
    \/ SubmitRepeat
    \/ ClickSkipWord
    \/ ClickNext
    \/ ClickEndPractice

Spec == Init /\ [][Next]_vars

----------------------------------------------------------------------------
(* loadData with any served files: the word list and the vocabulary are the  *)
(* inputs of wordIndices and patternsData, drawn from bounded sets.          *)

\* a word of one letter, two of mixed case, one longer than the longest key
WordPool ==
    { <<"c">>,
      <<"B","a","b">>,
      <<"a","b","A">>,
      <<"a","b","c","a","b","c","a","b","c">> }

PatternPool == { <<"a","b">>, <<"A","B">>, <<"b","a">> }

SeqsUpTo(S, n) == UNION { [1..k -> S] : k \in 0..n }

\* dict_english.json: an array of words
Dictionaries == SeqsUpTo(WordPool, MaxWords)

\* prefix_count.json: an object, its entries in Object.entries order; a key occurs once
Vocabularies ==
    { [i \in DOMAIN ps |-> [pattern |-> ps[i], data |-> [length |-> Len(ps[i])]]] :
        ps \in { q \in SeqsUpTo(PatternPool, MaxEntries) :
                    \A i, j \in DOMAIN q : q[i] = q[j] => i = j } }

dictionaryLoadedAny == \E words \in Dictionaries : dictionaryFetched(words)

prefixCountsLoadedAny == \E prefixes \in Vocabularies : prefixCountsFetched(prefixes)

LoadAny ==
    \/ loadDataStart
    \/ dictionaryLoadedAny
    \/ dictionaryFailed
    \/ prefixCountsLoadedAny
    \/ prefixCountsFailed

SpecLoadAny == Init /\ [][LoadAny]_vars

----------------------------------------------------------------------------
(* Explore mode (App.js 134-175, 238-245, 390-393, 436-500) *)

\* mutant: < for <= at the first threshold
getRarityClass_FiveIsRare(count) ==
    IF count < 5 THEN "ultra-rare"
    ELSE IF count <= 10 THEN "rare"
    ELSE IF count <= 50 THEN "uncommon"
    ELSE IF count <= 200 THEN "common"
    ELSE "very-common"

\* getRarityClass (App.js 135-141)
getRarityClass(count) ==
    IF count <= 5 THEN "ultra-rare"
    ELSE IF count <= 10 THEN "rare"
    ELSE IF count <= 50 THEN "uncommon"
    ELSE IF count <= 200 THEN "common"
    ELSE "very-common"

\* one call of getRarityClass: the argument and the value returned
getRarityClassCalled(count) ==
    /\ classifiedCount' = count
    /\ rarityClass' = Some(getRarityClass(count))
    /\ UNCHANGED <<loadVars, memoVars, exploreVars, mode, learnMode, selVars, sessionVars,
                   lastOp, histVars>>

CountInputs == (-MaxCount)..MaxCount

ClassifyCount == \E count \in CountInputs : getRarityClassCalled(count)

SpecClassify == Init /\ [][ClassifyCount]_vars

\* the option values of the two selects
LengthOptions == {"all", "2", "3", "4"}
RarityOptions == {"all", "ultra-rare", "rare", "uncommon", "common", "very-common"}

\* parseInt of an option value of the length select
parseInt(str) == CASE str = "2" -> 2 [] str = "3" -> 3 [] str = "4" -> 4

\* mutant: the query is trimmed before it is matched
filteredPatterns_TrimsQuery ==
    LET query == trim(toLowerCase(searchQuery))
        bySearch == IF trim(searchQuery) # <<>>
                    THEN SelectSeq(patternsData,
                             LAMBDA p : endsWith(p.pattern, query) \/ startsWith(p.pattern, query))
                    ELSE patternsData
        byLength == IF lengthFilter # "all"
                    THEN SelectSeq(bySearch, LAMBDA p : p.length = parseInt(lengthFilter))
                    ELSE bySearch
    IN IF rarityFilter # "all"
       THEN SelectSeq(byLength, LAMBDA p : getRarityClass(p.totalCount) = rarityFilter)
       ELSE byLength

\* filteredPatterns (App.js 144-166)
filteredPatterns ==
    LET query == toLowerCase(searchQuery)
        bySearch == IF trim(searchQuery) # <<>>
                    THEN SelectSeq(patternsData,
                             LAMBDA p : endsWith(p.pattern, query) \/ startsWith(p.pattern, query))
                    ELSE patternsData
        byLength == IF lengthFilter # "all"
                    THEN SelectSeq(bySearch, LAMBDA p : p.length = parseInt(lengthFilter))
                    ELSE bySearch
    IN IF rarityFilter # "all"
       THEN SelectSeq(byLength, LAMBDA p : getRarityClass(p.totalCount) = rarityFilter)
       ELSE byLength

itemsPerPage == 100

\* filteredPatterns.slice(startIdx, endIdx)
paginatedPatterns ==
    LET startIdx == (currentPage - 1) * itemsPerPage
        endIdx == startIdx + itemsPerPage
    IN SubSeq(filteredPatterns, startIdx + 1, Min(endIdx, Len(filteredPatterns)))

\* Math.ceil(filteredPatterns.length / itemsPerPage)
totalPages == (Len(filteredPatterns) + itemsPerPage - 1) \div itemsPerPage

\* mutant: the rarity filter is not a dependency of the effect
pageEffectDeps_NoRarity == <<searchQuery, lengthFilter>>

\* the dependency list of the effect that resets the page
pageEffectDeps == <<searchQuery, lengthFilter, rarityFilter>>

\* useEffect(() => { setCurrentPage(1) }, [searchQuery, lengthFilter, rarityFilter]):
\* it runs after the render in which a dependency has changed
resetPageEffect ==
    IF pageEffectDeps' # pageEffectDeps
    THEN /\ currentPage' = 1
         /\ pageSetUnder' = <<searchQuery', lengthFilter', rarityFilter'>>
    ELSE UNCHANGED <<currentPage, pageSetUnder>>

exploreRest == <<loadVars, memoVars, mode, learnMode, selVars, sessionVars, histVars,
                 classifyVars>>

setSearchQuery(value) ==
    /\ searchQuery' = value
    /\ ran("setSearchQuery", "done")
    /\ UNCHANGED <<lengthFilter, rarityFilter, expandedPattern, exploreRest>>
    /\ resetPageEffect

setLengthFilter(value) ==
    /\ lengthFilter' = value
    /\ ran("setLengthFilter", "done")
    /\ UNCHANGED <<searchQuery, rarityFilter, expandedPattern, exploreRest>>
    /\ resetPageEffect

setRarityFilter(value) ==
    /\ rarityFilter' = value
    /\ ran("setRarityFilter", "done")
    /\ UNCHANGED <<searchQuery, lengthFilter, expandedPattern, exploreRest>>
    /\ resetPageEffect

\* setExpandedPattern(prev => prev === pattern ? null : pattern)
toggleExpand(pattern) ==
    /\ expandedPattern' = IF expandedPattern = Some(pattern) THEN None ELSE Some(pattern)
    /\ ran("toggleExpand", "done")
    /\ UNCHANGED <<searchQuery, lengthFilter, rarityFilter, currentPage, pageSetUnder,
                   exploreRest>>

\* setCurrentPage(prev => prev + direction)
handlePageChange(direction) ==
    /\ currentPage' = currentPage + direction
    /\ ran("handlePageChange", "done")
    /\ UNCHANGED <<searchQuery, lengthFilter, rarityFilter, expandedPattern, pageSetUnder,
                   exploreRest>>

exploreRendered == appRendered /\ mode = Explore

\* {totalPages > 1 && (<div className="pagination"> ...
paginationRendered == exploreRendered /\ totalPages > 1

SearchInputs == {<<>>, <<"a">>, <<" ">>, <<"A">>, <<"a", " ">>}

TypeSearch == \E value \in SearchInputs : exploreRendered /\ setSearchQuery(value)

SelectLength == \E value \in LengthOptions : exploreRendered /\ setLengthFilter(value)

SelectRarity == \E value \in RarityOptions : exploreRendered /\ setRarityFilter(value)

\* disabled={currentPage === 1}
ClickPrevious == paginationRendered /\ currentPage # 1 /\ handlePageChange(-1)

\* disabled={currentPage === totalPages}
ClickNextPage == paginationRendered /\ currentPage # totalPages /\ handlePageChange(1)

ClickPatternHeader ==
    \E row \in 1..Min(MaxExpandRow, Len(paginatedPatterns)) :
        exploreRendered /\ toggleExpand(paginatedPatterns[row].pattern)

\* A word list and a vocabulary of more patterns than a page holds: every pair of
\* letters of Alphabet is a pattern of the vocabulary and is a word of the list twice,
\* and the pairs that end in the first letter are words a third time.
Alphabet == <<"a", "b", "c", "d", "e", "f", "g", "h", "i", "j", "k">>

PagedPatterns ==
    [p \in 1..(Len(Alphabet) * Len(Alphabet)) |->
        <<Alphabet[((p - 1) \div Len(Alphabet)) + 1], Alphabet[((p - 1) % Len(Alphabet)) + 1]>>]

PagedWords ==
    [i \in 1..(2 * Len(PagedPatterns) + Len(Alphabet)) |->
        IF i <= 2 * Len(PagedPatterns)
        THEN PagedPatterns[((i - 1) \div 2) + 1]
        ELSE PagedPatterns[(i - 2 * Len(PagedPatterns) - 1) * Len(Alphabet) + 1]]

PagedPrefixCounts ==
    [p \in DOMAIN PagedPatterns |->
        [pattern |-> PagedPatterns[p], data |-> [length |-> Len(PagedPatterns[p])]]]

\* wordIndices of PagedWords: a word of two letters is its own and only key in both
\* maps, and its bucket holds it once for each time the list holds it
PagedBucket(key) == SelectSeq(PagedWords, LAMBDA word : word = key)

PagedIndex ==
    LET map == [key \in {PagedPatterns[p] : p \in DOMAIN PagedPatterns} |-> PagedBucket(key)]
    IN [endsMap |-> map, startsMap |-> map]

\* patternsData of PagedWords and PagedPrefixCounts: one record for each pattern, the
\* records of total 4 before those of total 6, each group in the order of the vocabulary
PagedRecord(pattern) ==
    LET bucket == PagedBucket(pattern)
    IN [pattern |-> pattern, length |-> Len(pattern),
        endsWords |-> bucket, endsCount |-> Len(bucket),
        startsWords |-> bucket, startsCount |-> Len(bucket),
        totalCount |-> Len(bucket) + Len(bucket)]

PagedRecords ==
    LET records == [p \in DOMAIN PagedPatterns |-> PagedRecord(PagedPatterns[p])]
    IN SelectSeq(records, LAMBDA r : r.totalCount = 4)
           \o SelectSeq(records, LAMBDA r : r.totalCount = 6)

\* the state in which loadData has delivered PagedWords and PagedPrefixCounts and
\* the render has recomputed the memoized values; nothing else has happened
InitExplore ==
    /\ loadPc = "done"
    /\ currentDictionary = Some(PagedWords)
    /\ prefixCounts = Some(PagedPrefixCounts)
    /\ isLoading = FALSE
    /\ error = NoError
    /\ wordIndices = PagedIndex
    /\ patternsData = PagedRecords
    /\ rarePatterns = <<>>
    /\ searchQuery = <<>>
    /\ lengthFilter = "all"
    /\ rarityFilter = "all"
    /\ expandedPattern = None
    /\ currentPage = 1
    /\ pageSetUnder = <<searchQuery, lengthFilter, rarityFilter>>
    /\ mode = Explore
    /\ learnMode = Find
    /\ selectedPatterns = <<>>
    /\ customPatternInput = <<>>
    /\ patternTypeFilter = All
    /\ isStudying = FALSE
    /\ currentChallengeIndex = 0
    /\ userAnswer = <<>>
    /\ showAnswer = FALSE
    /\ correctAnswers = 0
    /\ totalAttempts = 0
    /\ foundWords = {}
    /\ attemptedWords = {}
    /\ currentWordIndex = 0
    /\ repeatCount = 0
    /\ hideWord = FALSE
    /\ classifiedCount = 0
    /\ rarityClass = None
    /\ lastOp = [op |-> "loadData", branch |-> "done"]
    /\ baseCorrect = 0
    /\ visibleCorrect = 0
    /\ streak = 0

NextExplore ==
    \/ ClickMode
    \/ TypeSearch
    \/ SelectLength
    \/ SelectRarity
    \/ ClickPrevious
    \/ ClickNextPage
    \/ ClickPatternHeader

SpecExplore == InitExplore /\ [][NextExplore]_vars

----------------------------------------------------------------------------
(* Pattern selection over a word list that reaches the limits of the drill   *)
(* set (App.js 178-228, 596-650)                                             *)

\* fifteen words Bab, then abab, aabc, Cabc, abca, abcB, bca
DrillWords ==
    [i \in 1..(MaxDrillCount + 6) |->
        IF i <= MaxDrillCount
        THEN <<"B","a","b">>
        ELSE << <<"a","b","a","b">>, <<"a","a","b","c">>, <<"C","a","b","c">>,
                <<"a","b","c","a">>, <<"a","b","c","B">>, <<"b","c","a">> >>[i - MaxDrillCount]]

DrillPrefixCounts ==
    << [pattern |-> <<"b","a","b">>, data |-> [length |-> 3]],
       [pattern |-> <<"A","B","C">>, data |-> [length |-> 3]],
       [pattern |-> <<"a","b">>, data |-> [length |-> 2]],
       [pattern |-> <<"b","c","a">>, data |-> [length |-> 3]],
       [pattern |-> <<"a","b","a">>, data |-> [length |-> 3]] >>

\* wordIndices of DrillWords: the keys are the endings (the beginnings) of 2 to 8
\* letters of the lower-cased words, and the bucket of a key holds, in the order of
\* the list, the words that end (start) with it
DrillAffixLengths(word) == MinAffixLen..Min(MaxAffixLen, Len(word))

DrillIndex ==
    LET endKeys == UNION { { sliceLast(toLowerCase(DrillWords[i]), n) :
                               n \in DrillAffixLengths(DrillWords[i]) } : i \in DOMAIN DrillWords }
        startKeys == UNION { { sliceFirst(toLowerCase(DrillWords[i]), n) :
                                 n \in DrillAffixLengths(DrillWords[i]) } : i \in DOMAIN DrillWords }
    IN [endsMap |-> [key \in endKeys |->
                        SelectSeq(DrillWords, LAMBDA word : endsWith(toLowerCase(word), key))],
        startsMap |-> [key \in startKeys |->
                          SelectSeq(DrillWords, LAMBDA word : startsWith(toLowerCase(word), key))]]

DrillRecord(pattern) ==
    LET wordsEndingWith == mapGetOrEmpty(DrillIndex.endsMap, pattern)
        wordsStartingWith == mapGetOrEmpty(DrillIndex.startsMap, pattern)
    IN [pattern |-> pattern, length |-> Len(pattern),
        endsWords |-> wordsEndingWith, endsCount |-> Len(wordsEndingWith),
        startsWords |-> wordsStartingWith, startsCount |-> Len(wordsStartingWith),
        totalCount |-> Len(wordsEndingWith) + Len(wordsStartingWith)]

\* patternsData of DrillWords and DrillPrefixCounts: aba is not kept (one word starts
\* with it, none ends with it); the others by total: bca 3, abc 4, ab 19, bab 31
DrillRecords ==
    << DrillRecord(<<"b","c","a">>), DrillRecord(<<"a","b","c">>),
       DrillRecord(<<"a","b">>), DrillRecord(<<"b","a","b">>) >>

\* the state in which loadData has delivered DrillWords and DrillPrefixCounts and
\* the render has recomputed the memoized values; nothing else has happened
InitDrill ==
    /\ loadPc = "done"
    /\ currentDictionary = Some(DrillWords)
    /\ prefixCounts = Some(DrillPrefixCounts)
    /\ isLoading = FALSE
    /\ error = NoError
    /\ wordIndices = DrillIndex
    /\ patternsData = DrillRecords
    /\ rarePatterns = drillSet(DrillRecords, All, <<>>)
    /\ searchQuery = <<>>
    /\ lengthFilter = "all"
    /\ rarityFilter = "all"
    /\ expandedPattern = None
    /\ currentPage = 1
    /\ pageSetUnder = <<searchQuery, lengthFilter, rarityFilter>>
    /\ mode = Explore
    /\ learnMode = Find
    /\ selectedPatterns = <<>>
    /\ customPatternInput = <<>>
    /\ patternTypeFilter = All
    /\ isStudying = FALSE
    /\ currentChallengeIndex = 0
    /\ userAnswer = <<>>
    /\ showAnswer = FALSE
    /\ correctAnswers = 0
    /\ totalAttempts = 0
    /\ foundWords = {}
    /\ attemptedWords = {}
    /\ currentWordIndex = 0
    /\ repeatCount = 0
    /\ hideWord = FALSE
    /\ classifiedCount = 0
    /\ rarityClass = None
    /\ lastOp = [op |-> "loadData", branch |-> "done"]
    /\ baseCorrect = 0
    /\ visibleCorrect = 0
    /\ streak = 0

\* what is typed into the custom pattern input
DrillQueries ==
    { <<>>, <<" ">>, <<"a">>, <<"b">>, <<"c">>, <<"C"," ">>, <<"a","b">>, <<"b","c">>,
      <<"a","b","c">>, <<"b","a","b">>, <<"b","c","a">>, <<"x">> }

TypeDrillQuery ==
    \E value \in DrillQueries : selectionRendered /\ setCustomPatternInput(value)

NextDrill ==
    \/ ClickMode
    \/ ClickPatternType
    \/ ClickGameMode
    \/ TypeDrillQuery

SpecDrill == InitDrill /\ [][NextDrill]_vars

----------------------------------------------------------------------------
(* The claims.  A step is recognised by the handler it ran (lastOp'.op); what *)
(* a claim says of the step is stated over the state before and after it.    *)

studyingFind == isStudying /\ learnMode = Find
studyingRepeat == isStudying /\ learnMode = Repeat
resolved == currentChallenge # None
nonBlank == \E i \in 1..Len(userAnswer) : userAnswer[i] # " "

\* the candidate of the typed fragment: fragment+pattern (ENDS), pattern+fragment (STARTS)
candidate ==
    LET fragment == trim(toLowerCase(userAnswer))
        c == currentChallenge[1]
    IN IF c.type = Ends THEN fragment \o c.pattern ELSE c.pattern \o fragment

\* the candidates that are words of the challenge, whatever their case
validCandidates ==
    IF resolved
    THEN {toLowerCase(currentChallenge[1].words[i]) : i \in 1..Len(currentChallenge[1].words)}
    ELSE {}

\* the typed value is the current word of the repeat protocol, whatever its case
typedCurrentWord ==
    /\ resolved
    /\ currentWordIndex < Len(currentChallenge[1].words)
    /\ toLowerCase(trim(userAnswer))
         = toLowerCase(currentChallenge[1].words[currentWordIndex + 1])

\* C1: a find-words guess whose candidate is already in attemptedWords changes none
\* of correctAnswers, totalAttempts, foundWords, attemptedWords; a guess whose
\* candidate is new enters attemptedWords and counts one attempt, so the same
\* candidate submitted twice counts once.
C1_ResubmissionAbsorbed ==
    [][ (lastOp'.op = "checkAnswer" /\ studyingFind /\ resolved /\ nonBlank) =>
          IF candidate \in attemptedWords
          THEN /\ correctAnswers' = correctAnswers
               /\ totalAttempts' = totalAttempts
               /\ foundWords' = foundWords
               /\ attemptedWords' = attemptedWords
          ELSE /\ candidate \in attemptedWords'
               /\ totalAttempts' = totalAttempts + 1 ]_vars

C1_Witness ==
    /\ lastOp = [op |-> "checkAnswer", branch |-> "absorbed"]
    /\ studyingFind
    /\ totalAttempts = 1
    /\ Cardinality(attemptedWords) = 1

\* C2: within one find-words challenge the words found are exactly the distinct
\* submitted candidates that are words of the challenge, and correctAnswers has
\* grown by their number since the challenge began.
C2_FoundCountsDistinctValid ==
    studyingFind =>
        /\ foundWords = attemptedWords \cap validCandidates
        /\ correctAnswers - baseCorrect = Cardinality(foundWords)

C2_Witness ==
    /\ studyingFind
    /\ Cardinality(foundWords) = 2
    /\ Cardinality(attemptedWords) = 3
    /\ correctAnswers = 2

\* C3 as claimed: the word is hidden only by the third of 3 consecutive correct
\* visible submissions.
C3_HiddenOnlyAfterStreak ==
    [][ (~hideWord /\ hideWord') => streak' >= RepeatsToHide ]_vars

\* C3 amended: the word is hidden exactly by the third correct visible submission
\* of it, consecutive or not, and that step resets repeatCount to 0.
C3_HiddenOnThirdCorrect ==
    [][ /\ (~hideWord /\ hideWord') =>
             /\ lastOp'.op = "checkRepeatWord"
             /\ typedCurrentWord
             /\ visibleCorrect' = 3
             /\ repeatCount' = 0
        /\ (lastOp'.op = "checkRepeatWord" /\ studyingRepeat /\ nonBlank
              /\ ~hideWord /\ typedCurrentWord /\ visibleCorrect = 2) =>
             /\ hideWord'
             /\ repeatCount' = 0 ]_vars

C3_Witness ==
    /\ studyingRepeat
    /\ hideWord
    /\ lastOp = [op |-> "checkRepeatWord", branch |-> "hidden"]
    /\ visibleCorrect = 3
    /\ streak = 1

\* C4: a correct submission of the hidden word moves to the next word, resets
\* repeatCount and hideWord and scores 1; a correct submission of a visible word
\* does not score.
C4_RecallAdvancesAndScores ==
    [][ (lastOp'.op = "checkRepeatWord" /\ studyingRepeat /\ nonBlank /\ typedCurrentWord) =>
          IF hideWord
          THEN /\ currentWordIndex' = currentWordIndex + 1
               /\ repeatCount' = 0
               /\ hideWord' = FALSE
               /\ correctAnswers' = correctAnswers + 1
          ELSE correctAnswers' = correctAnswers ]_vars

C4_Witness ==
    /\ studyingRepeat
    /\ lastOp = [op |-> "checkRepeatWord", branch |-> "recalled"]
    /\ currentWordIndex = 1
    /\ correctAnswers = 1
    /\ ~hideWord

\* C5: a non-blank repeat-mode submission against a resolved challenge counts one
\* attempt, and a wrong one changes nothing else of the session.
C5_SubmissionCountsOneAttempt ==
    [][ (lastOp'.op = "checkRepeatWord" /\ studyingRepeat /\ resolved /\ nonBlank) =>
          /\ totalAttempts' = totalAttempts + 1
          /\ ~typedCurrentWord =>
               /\ currentWordIndex' = currentWordIndex
               /\ repeatCount' = repeatCount
               /\ hideWord' = hideWord
               /\ correctAnswers' = correctAnswers
               /\ currentChallengeIndex' = currentChallengeIndex
               /\ selectedPatterns' = selectedPatterns ]_vars

C5_Witness ==
    /\ studyingRepeat
    /\ lastOp = [op |-> "checkRepeatWord", branch |-> "wrong"]
    /\ repeatCount = 2
    /\ totalAttempts = 3

\* C6: reveal shows the words, counts one attempt when nothing was found and none
\* otherwise, and changes none of correctAnswers, foundWords, attemptedWords.
C6_RevealPenalizesGivingUp ==
    [][ (lastOp'.op = "showAllWords" /\ studyingFind) =>
          /\ showAnswer'
          /\ totalAttempts' = totalAttempts + (IF foundWords = {} THEN 1 ELSE 0)
          /\ correctAnswers' = correctAnswers
          /\ foundWords' = foundWords
          /\ attemptedWords' = attemptedWords ]_vars

C6_Witness ==
    /\ studyingFind
    /\ lastOp.op = "showAllWords"
    /\ showAnswer
    /\ foundWords # {}
    /\ totalAttempts = Cardinality(attemptedWords)

\* C7: advance moves to the next challenge index, empties the per-challenge sets,
\* resets the repeat fields and the revealed sub-state, and keeps the score, the
\* selection, the protocol and the session.
C7_AdvanceKeepsScore ==
    [][ (lastOp'.op = "nextChallenge") =>
          /\ currentChallengeIndex' = currentChallengeIndex + 1
          /\ foundWords' = {}
          /\ attemptedWords' = {}
          /\ currentWordIndex' = 0
          /\ repeatCount' = 0
          /\ hideWord' = FALSE
          /\ showAnswer' = FALSE
          /\ correctAnswers' = correctAnswers
          /\ totalAttempts' = totalAttempts
          /\ selectedPatterns' = selectedPatterns
          /\ learnMode' = learnMode
          /\ isStudying /\ isStudying' ]_vars

C7_Witness ==
    /\ lastOp.op = "nextChallenge"
    /\ isStudying
    /\ currentChallengeIndex = 1
    /\ correctAnswers = 1
    /\ totalAttempts = 2

\* C8: skip moves to the next word and resets repeatCount and hideWord without
\* changing correctAnswers or totalAttempts.
C8_SkipDoesNotScore ==
    [][ (lastOp'.op = "skipRepeatWord" /\ studyingRepeat) =>
          /\ currentWordIndex' = currentWordIndex + 1
          /\ repeatCount' = 0
          /\ hideWord' = FALSE
          /\ correctAnswers' = correctAnswers
          /\ totalAttempts' = totalAttempts ]_vars

C8_Witness ==
    /\ studyingRepeat
    /\ lastOp.op = "skipRepeatWord"
    /\ currentWordIndex = 1
    /\ totalAttempts = 3
    /\ correctAnswers = 0

\* C9: starting with nothing selected changes no field of the session: it stays idle.
C9_EmptyStartIsNoOp ==
    [][ (lastOp'.op = "startStudy" /\ Len(selectedPatterns) = 0) =>
          /\ ~isStudying /\ ~isStudying'
          /\ selectedPatterns' = selectedPatterns
          /\ learnMode' = learnMode
          /\ currentChallengeIndex' = currentChallengeIndex
          /\ correctAnswers' = correctAnswers
          /\ totalAttempts' = totalAttempts
          /\ foundWords' = foundWords
          /\ attemptedWords' = attemptedWords
          /\ currentWordIndex' = currentWordIndex
          /\ repeatCount' = repeatCount
          /\ hideWord' = hideWord ]_vars

C9_Witness ==
    /\ lastOp.op = "startStudy"
    /\ Len(selectedPatterns) = 0
    /\ ~isStudying
    /\ learnMode = Repeat

\* C10: while the active key does not resolve against the drill set, a guess, a
\* repeat submission, reveal and skip change none of the session's counters and sets.
C10_UnresolvedIsNoOp ==
    [][ (isStudying /\ ~resolved
           /\ lastOp'.op \in {"checkAnswer", "checkRepeatWord", "showAllWords",
                              "skipRepeatWord"}) =>
          /\ correctAnswers' = correctAnswers
          /\ totalAttempts' = totalAttempts
          /\ foundWords' = foundWords
          /\ attemptedWords' = attemptedWords
          /\ currentWordIndex' = currentWordIndex
          /\ repeatCount' = repeatCount
          /\ hideWord' = hideWord ]_vars

\* C11: reset from an active session of either protocol leaves the session idle with
\* nothing selected and every counter, set and repeat field at its initial value.
C11_ResetClearsSession ==
    [][ (lastOp'.op = "resetStudy" /\ isStudying) =>
          /\ ~isStudying'
          /\ selectedPatterns' = <<>>
          /\ correctAnswers' = 0
          /\ totalAttempts' = 0
          /\ foundWords' = {}
          /\ attemptedWords' = {}
          /\ currentChallengeIndex' = 0
          /\ currentWordIndex' = 0
          /\ repeatCount' = 0
          /\ hideWord' = FALSE ]_vars

C11_Witness ==
    /\ lastOp.op = "resetStudy"
    /\ ~isStudying
    /\ selectedPatterns = <<>>
    /\ totalAttempts = 0
    /\ patternTypeFilter = Starts

\* the session fields a claim calls "session fields"
sessionFields ==
    <<isStudying, learnMode, selectedPatterns, currentChallengeIndex, showAnswer,
      correctAnswers, totalAttempts, foundWords, attemptedWords,
      currentWordIndex, repeatCount, hideWord>>

\* the word list of the active challenge is exhausted
patternComplete == studyingRepeat /\ currentWordIndex = challengeWordCount

\* C12: in repeat mode currentWordIndex never exceeds the length of the challenge's
\* word list, and once it equals it only advance and reset change a session field.
C12_TerminalUntilAdvance ==
    /\ [](studyingRepeat => currentWordIndex <= challengeWordCount)
    /\ [][ (patternComplete /\ sessionFields' # sessionFields) =>
             lastOp'.op \in {"nextChallenge", "resetStudy"} ]_vars

C12_Witness ==
    /\ patternComplete
    /\ resolved
    /\ currentWordIndex = 2
    /\ correctAnswers = 1

\* C13: repeatCount is 0, 1 or 2 in every reachable state.
C13_RepeatCountBelowThree == repeatCount \in {0, 1, 2}

C13_Witness ==
    /\ studyingRepeat
    /\ repeatCount = 2
    /\ lastOp.op = "checkRepeatWord"

\* C14: no key occurs twice in selectedPatterns.
C14_SelectionHasNoDuplicates ==
    \A i, j \in 1..Len(selectedPatterns) :
        selectedPatterns[i] = selectedPatterns[j] => i = j

C14_Witness ==
    /\ Len(selectedPatterns) = 2
    /\ lastOp.op = "togglePatternSelection"
    /\ selectedPatterns[1] = <<"a","b","c","_","s","t","a","r","t","s">>

\* C15: once a load has failed no index is built: the affix index, the pattern
\* records and the drill set are empty in the error state.
C15_NoPartialIndex ==
    error # NoError =>
        /\ wordIndices = [endsMap |-> EmptyMap, startsMap |-> EmptyMap]
        /\ patternsData = <<>>
        /\ rarePatterns = <<>>

filters == <<searchQuery, lengthFilter, rarityFilter>>

\* C16: a step that changes the search query, the length filter or the rarity filter
\* leaves currentPage at 1, and every page change or expand runs with a page that
\* was reset under the filters in force.
C16_FilterChangeResetsPage ==
    [][ /\ filters' # filters => currentPage' = 1
        /\ lastOp'.op \in {"handlePageChange", "toggleExpand"} => pageSetUnder = filters
      ]_vars

\* a pattern of page 2 was opened, then the rarity filter was changed: the page is 1
C16_Witness ==
    /\ lastOp.op = "setRarityFilter"
    /\ rarityFilter = "rare"
    /\ expandedPattern = Some(<<"k", "b">>)
    /\ currentPage = 1
    /\ totalPages = 1

\* both files are loaded: the aggregation has run over them
aggregated == currentDictionary # None /\ prefixCounts # None

endsBy(key) == mapGetOrEmpty(wordIndices.endsMap, key)
startsBy(key) == mapGetOrEmpty(wordIndices.startsMap, key)

\* patternsData holds a record of the pattern
kept(pattern) == \E i \in DOMAIN patternsData : patternsData[i].pattern = pattern

\* C17 as stated: a vocabulary pattern is kept exactly when its two buckets hold
\* two words or more between them.
C17_KeptIffSumAtLeastTwo ==
    aggregated =>
        \A e \in DOMAIN prefixCounts[1] :
            LET p == toLowerCase(prefixCounts[1][e].pattern)
            IN kept(p) <=> Len(endsBy(p)) + Len(startsBy(p)) >= 2

\* C17 amended: a vocabulary pattern is kept exactly when one of its two buckets
\* holds two words or more.
C17_KeptIffOneSideAtLeastTwo ==
    aggregated =>
        \A e \in DOMAIN prefixCounts[1] :
            LET p == toLowerCase(prefixCounts[1][e].pattern)
            IN kept(p) <=> (Len(endsBy(p)) >= 2 \/ Len(startsBy(p)) >= 2)

\* one pattern is kept, another is dropped with one word in each bucket
C17_Witness ==
    /\ aggregated
    /\ \E e \in DOMAIN prefixCounts[1] : kept(toLowerCase(prefixCounts[1][e].pattern))
    /\ \E e \in DOMAIN prefixCounts[1] :
           LET p == toLowerCase(prefixCounts[1][e].pattern)
           IN ~kept(p) /\ Len(endsBy(p)) = 1 /\ Len(startsBy(p)) = 1

\* C18: every record's counts are the lengths of its word lists, its total is their
\* sum and is 2 or more, and no two records carry the same lower-cased pattern.
C18_RecordsAreConsistent ==
    /\ \A i \in DOMAIN patternsData :
           LET r == patternsData[i]
           IN /\ r.totalCount = r.endsCount + r.startsCount
              /\ r.endsCount = Len(r.endsWords)
              /\ r.startsCount = Len(r.startsWords)
              /\ r.totalCount >= 2
    /\ \A i, j \in DOMAIN patternsData :
           toLowerCase(patternsData[i].pattern) = toLowerCase(patternsData[j].pattern)
               => i = j

\* the vocabulary spells one pattern in two cases, and one record stands for both
C18_Witness ==
    /\ aggregated
    /\ Len(prefixCounts[1]) = 2
    /\ prefixCounts[1][1].pattern = <<"A","B">>
    /\ prefixCounts[1][2].pattern = <<"a","b">>
    /\ Len(patternsData) = 1
    /\ patternsData[1].endsCount = 2
    /\ patternsData[1].startsCount = 1

\* the place of a pattern in the iteration of the vocabulary: its first spelling
firstEntry(pattern) ==
    CHOOSE e \in DOMAIN prefixCounts[1] :
        /\ toLowerCase(prefixCounts[1][e].pattern) = pattern
        /\ \A d \in DOMAIN prefixCounts[1] :
               toLowerCase(prefixCounts[1][d].pattern) = pattern => e <= d

\* C19: the records are in non-decreasing order of totalCount, and records of equal
\* totalCount are in the order in which the vocabulary iterates their patterns.
C19_SortedAndStable ==
    aggregated =>
        \A i, j \in DOMAIN patternsData :
            i < j =>
                /\ patternsData[i].totalCount <= patternsData[j].totalCount
                /\ patternsData[i].totalCount = patternsData[j].totalCount
                       => firstEntry(patternsData[i].pattern)
                              < firstEntry(patternsData[j].pattern)

\* the sort has moved a record in front of one the vocabulary iterates earlier
C19_Witness ==
    /\ aggregated
    /\ Len(patternsData) = 2
    /\ patternsData[1].totalCount < patternsData[2].totalCount
    /\ firstEntry(patternsData[1].pattern) > firstEntry(patternsData[2].pattern)

Range(seq) == { seq[i] : i \in DOMAIN seq }

\* the keys are 2 to 8 characters long, and a bucket lists its words in the order
\* of the word list
keysAndOrder(map, words) ==
    \A k \in DOMAIN map :
        /\ Len(k) >= 2
        /\ Len(k) <= 8
        /\ map[k] = SelectSeq(words, LAMBDA w : w \in Range(map[k]))

\* the affix lengths a word is indexed under
affixLengths(word) == 2..Min(8, Len(word))

\* C20 as stated: the lower-cased word is in the bucket of each of its affixes of
\* 2 to 8 characters; keys are 2 to 8 long; buckets are in word-list order.
C20_LowerWordIndexed ==
    currentDictionary # None =>
        LET words == currentDictionary[1]
        IN /\ \A i \in DOMAIN words : \A L \in affixLengths(words[i]) :
                  LET lowerWord == toLowerCase(words[i])
                  IN /\ lowerWord \in Range(endsBy(sliceLast(lowerWord, L)))
                     /\ lowerWord \in Range(startsBy(sliceFirst(lowerWord, L)))
           /\ keysAndOrder(wordIndices.endsMap, words)
           /\ keysAndOrder(wordIndices.startsMap, words)

\* C20 amended: the word as the word list spells it is in the bucket of each affix
\* of 2 to 8 characters of its lower-cased form; keys and order as stated.
C20_WordIndexed ==
    currentDictionary # None =>
        LET words == currentDictionary[1]
        IN /\ \A i \in DOMAIN words : \A L \in affixLengths(words[i]) :
                  LET lowerWord == toLowerCase(words[i])
                  IN /\ words[i] \in Range(endsBy(sliceLast(lowerWord, L)))
                     /\ words[i] \in Range(startsBy(sliceFirst(lowerWord, L)))
           /\ keysAndOrder(wordIndices.endsMap, words)
           /\ keysAndOrder(wordIndices.startsMap, words)

\* a word of mixed case, a word of nine letters and a word of one are indexed
C20_Witness ==
    /\ currentDictionary = Some(<< <<"a","b","c","a","b","c","a","b","c">>,
                                   <<"c">>,
                                   <<"B","a","b">> >>)
    /\ endsBy(<<"a","b">>) = << <<"B","a","b">> >>
    /\ startsBy(<<"a","b","c","a","b","c","a","b">>) # <<>>

\* C25 as stated: whenever a session is active the active challenge resolves against
\* the current drill set.
C25_ActiveChallengeResolves == isStudying => resolved

\* the lower-cased words of the selected patterns that resolve against the drill set
selectedWords ==
    UNION { LET found == findByKey(rarePatterns, selectedPatterns[i])
            IN IF found = None THEN {}
               ELSE { toLowerCase(found[1].words[w]) : w \in DOMAIN found[1].words }
            : i \in DOMAIN selectedPatterns }

\* C26 as stated: in a find-words session correctAnswers never exceeds the number of
\* distinct words of the selected patterns.
C26_EachWordScoresOnce == studyingFind => correctAnswers <= Cardinality(selectedWords)

\* C27: correctAnswers is between 0 and totalAttempts in every reachable state.
C27_ScoreWithinAttempts == 0 <= correctAnswers /\ correctAnswers <= totalAttempts

\* every attempt of a session of three has scored
C27_Witness ==
    /\ isStudying
    /\ correctAnswers = 3
    /\ totalAttempts = 3

\* C28: a find-mode session has hideWord false, repeatCount 0 and currentWordIndex 0;
\* a repeat-mode session has foundWords and attemptedWords empty and is not revealed.
C28_ProtocolFieldsNeverMix ==
    /\ studyingFind => (hideWord = FALSE /\ repeatCount = 0 /\ currentWordIndex = 0)
    /\ studyingRepeat => (foundWords = {} /\ attemptedWords = {} /\ showAnswer = FALSE)

\* a find-mode session in which a guess has been recorded
C28_Witness ==
    /\ studyingFind
    /\ attemptedWords # {}
    /\ totalAttempts = 1
    /\ lastOp.op = "checkAnswer"

\* the sides of a record, in the order in which their entries are emitted
sideOrder(side) == IF side = Ends THEN 1 ELSE 2

sideCount(p, side) == IF side = Ends THEN p.endsCount ELSE p.startsCount

sideWords(p, side) == IF side = Ends THEN p.endsWords ELSE p.startsWords

\* the (record, side) pairs that give an entry: count in [2,15] and length 3 or more
emitted ==
    { q \in (DOMAIN patternsData) \X {Ends, Starts} :
        LET p == patternsData[q[1]]
        IN sideCount(p, q[2]) >= 2 /\ sideCount(p, q[2]) <= 15 /\ p.length >= 3 }

\* the place of the entry of an emitted pair: after the entries of the records before
\* it and, for the STARTS entry, after the ENDS entry of its own record
placeOf(q) ==
    1 + Cardinality({ r \in emitted :
                        r[1] < q[1] \/ (r[1] = q[1] /\ sideOrder(r[2]) < sideOrder(q[2])) })

noFilter == patternTypeFilter = All /\ trim(customPatternInput) = <<>>

\* C21: with no side filter and no affix query the drill set is the walk of the
\* records that emits an ENDS entry, then a STARTS entry, for the sides whose count is
\* in [2,15] when length >= 3; every entry has count = |words|, 2 <= count <= 15,
\* length >= 3 and a key of its own.
C21_DrillSetIsTheWalk ==
    noFilter =>
        /\ Len(rarePatterns) = Cardinality(emitted)
        /\ \A q \in emitted :
               LET p == patternsData[q[1]]
               IN rarePatterns[placeOf(q)] =
                      [pattern |-> p.pattern, type |-> q[2], length |-> p.length,
                       words |-> sideWords(p, q[2]), count |-> sideCount(p, q[2])]
        /\ \A i \in DOMAIN rarePatterns :
               /\ rarePatterns[i].count = Len(rarePatterns[i].words)
               /\ rarePatterns[i].count >= 2
               /\ rarePatterns[i].count <= 15
               /\ rarePatterns[i].length >= 3
        /\ \A i, j \in DOMAIN rarePatterns :
               (rarePatterns[i].pattern = rarePatterns[j].pattern
                   /\ rarePatterns[i].type = rarePatterns[j].type) => i = j

\* the whole walk: bca ENDS, abc ENDS, abc STARTS, and bab STARTS with its fifteen
\* words (sixteen end with bab); ab is too short
C21_Witness ==
    /\ selectionRendered
    /\ noFilter
    /\ lastOp.op = "setCustomPatternInput"
    /\ Len(patternsData) = 4
    /\ Len(rarePatterns) = 4
    /\ patternsData[4].endsCount = 16
    /\ rarePatterns[4].type = Starts
    /\ rarePatterns[4].count = 15

\* the three predicates of the filter engine, each passed by every record while its
\* filter is inactive
queryActive == trim(searchQuery) # <<>>

passesQuery(p) ==
    queryActive =>
        (endsWith(p.pattern, toLowerCase(searchQuery))
            \/ startsWith(p.pattern, toLowerCase(searchQuery)))

passesLength(p) == lengthFilter # "all" => p.length = parseInt(lengthFilter)

passesRarity(p) == rarityFilter # "all" => getRarityClass(p.totalCount) = rarityFilter

\* C24: the filter engine's result is the subsequence, in the original order, of the
\* records that satisfy all active predicates at once (pattern ends or starts with the
\* case-folded query, length equal to the length filter, rarity class of totalCount
\* equal to the rarity filter); an inactive predicate removes nothing.
C24_FilterIsConjunction ==
    filteredPatterns =
        SelectSeq(patternsData,
                  LAMBDA p : passesQuery(p) /\ passesLength(p) /\ passesRarity(p))

\* all three filters active, with a capital in the query: some records pass, not all
C24_Witness ==
    /\ exploreRendered
    /\ searchQuery = <<"A">>
    /\ lengthFilter = "2"
    /\ rarityFilter = "rare"
    /\ Len(filteredPatterns) > 0
    /\ Len(filteredPatterns) < Len(SelectSeq(patternsData, passesQuery))

Tiers == {"ultra-rare", "rare", "uncommon", "common", "very-common"}

\* C23: the class of a count is ultra-rare for count <= 5, rare for 6..10, uncommon
\* for 11..50, common for 51..200 and very-common for count >= 201; every integer
\* count gets exactly one of the five classes.
C23_ClassifyThresholds ==
    /\ \A n \in CountInputs : getRarityClass(n) \in Tiers
    /\ rarityClass # None =>
           LET n == classifiedCount
               tier == rarityClass[1]
           IN /\ tier \in Tiers
              /\ tier = "ultra-rare" <=> n <= 5
              /\ tier = "rare" <=> (n >= 6 /\ n <= 10)
              /\ tier = "uncommon" <=> (n >= 11 /\ n <= 50)
              /\ tier = "common" <=> (n >= 51 /\ n <= 200)
              /\ tier = "very-common" <=> n >= 201

\* the first count above the last threshold has been classified
C23_Witness == classifiedCount = 201 /\ rarityClass = Some("very-common")

affixActive == trim(customPatternInput) # <<>>

affixQuery == trim(toLowerCase(customPatternInput))

\* an entry is kept by its own side of the pattern, and by the side filter
keptUnderQuery(e) ==
    /\ patternTypeFilter # All => e.type = patternTypeFilter
    /\ e.type = Ends => endsWith(e.pattern, affixQuery)
    /\ e.type = Starts => startsWith(e.pattern, affixQuery)

\* C22: under a non-blank affix query (lower-cased and trimmed) the drill set keeps an
\* ENDS entry exactly when its pattern ends with the query and a STARTS entry exactly
\* when its pattern starts with it, never crosswise; the side filter keeps only the
\* entries of its side.
C22_QueryMatchesOwnSide ==
    /\ affixActive =>
           rarePatterns = SelectSeq(splitPatterns(patternsData, 1), keptUnderQuery)
    /\ patternTypeFilter # All =>
           \A i \in DOMAIN rarePatterns : rarePatterns[i].type = patternTypeFilter

\* query a: abc starts with it and bca ends with it, so the ENDS entry of abc goes
\* and its STARTS entry stays, and the ENDS entry of bca stays
C22_Witness ==
    /\ selectionRendered
    /\ customPatternInput = <<"a">>
    /\ patternTypeFilter = All
    /\ Len(rarePatterns) = 2
    /\ rarePatterns[1].pattern = <<"b","c","a">> /\ rarePatterns[1].type = Ends
    /\ rarePatterns[2].pattern = <<"a","b","c">> /\ rarePatterns[2].type = Starts

====
